---- MODULE Spec2Model ----
(***************************************************************************)
(* Triple-barrier labeling v2.2 (core/labeling/labeling_v22.py): the EWMA  *)
(* volatility per event, the bar-level scanner, the tick-slice first-hit   *)
(* refinement and run() that drives them; the abort file of the progress   *)
(* monitor; and the v2.1 kernel (core/labeling/labeling.py), which reads   *)
(* the tick slice of every bar it scans.                                   *)
(*                                                                         *)
(* Numbers.  Prices, volatilities and barrier levels are floats in the     *)
(* source; here they are fixed-point integers in units of 1/Scale, so the  *)
(* price 100.0 is 100 * Scale and the volatility 0.001 is Scale \div 1000. *)
(* Returns are fixed-point in the same unit.  Timestamps are nanoseconds   *)
(* in the source and whole seconds here (one second is the finest step any *)
(* input of the model takes), so timeout_seconds * 1_000_000_000 is        *)
(* timeout_seconds time units.  Arrays are functions on 0 .. n-1, as the   *)
(* source indexes them; the event list and the result rows are sequences   *)
(* (row i of the source is row i+1 here).                                  *)
(***************************************************************************)
EXTENDS Integers, Sequences, FiniteSets, TLC

----------------------------------------------------------------------------
(* Bounds of the model *)

\* number of bars of the price series
MaxBars == 4
\* largest number of events in the configured event list
MaxEvents == 2
\* largest number of ticks in one tick slice file
MaxTicks == 2

Scale == 10 ^ 4

\* bar mid prices the series draws from
PriceSet == {98 * Scale, 100 * Scale, 102 * Scale}
\* seconds between two bar closes (1-minute bars)
BarSeconds == 60
\* config.tp_vol_multiple / config.sl_vol_multiple
MultSet == {0, 200}
\* config.side
SideSet == {1, -1, 0}
\* config.vol_lookback
VolLookbackSet == {2}

----------------------------------------------------------------------------
(* Numeric helpers *)

Abs(x) == IF x < 0 THEN -x ELSE x

Max(a, b) == IF a >= b THEN a ELSE b

Min(a, b) == IF a <= b THEN a ELSE b

\* float division, rounded toward zero (sign-symmetric, as IEEE division is)
Div(a, b) == IF (a >= 0) = (b > 0) THEN Abs(a) \div Abs(b) ELSE -(Abs(a) \div Abs(b))

RECURSIVE SqrtSearch(_, _, _)
SqrtSearch(lo, hi, x) ==
    IF lo >= hi THEN lo
    ELSE LET mid == (lo + hi + 1) \div 2
         IN  IF mid * mid <= x THEN SqrtSearch(mid, hi, x)
             ELSE SqrtSearch(lo, mid - 1, x)

\* np.sqrt on a fixed-point variance (units 1/Scale^2): result in units 1/Scale
Sqrt(x) == SqrtSearch(0, Min(x, 40000), x)

\* len() of an array
Len0(arr) == Cardinality(DOMAIN arr)

\* arr[k] with Python's wrap-around of a negative index
At(arr, k) == arr[IF k < 0 THEN k + Len0(arr) ELSE k]

RECURSIVE SumRange(_, _, _)
SumRange(arr, lo, hi) ==
    IF lo >= hi THEN 0 ELSE arr[lo] + SumRange(arr, lo + 1, hi)

\* arr[lo:hi].mean() for 0 <= lo < hi <= len(arr)
MeanSlice(arr, lo, hi) == SumRange(arr, lo, hi) \div (hi - lo)

----------------------------------------------------------------------------
(* 4.1 Volatility estimator *)

\* config.vol_alpha = 0.94, in hundredths
AlphaPct == 94
\* the default volatility 0.01 of an event at index 0
DefaultVolatility == Scale \div 100
\* the volatility floor 0.001
MinVolatility == Scale \div 1000

\* bars_df["mid"].pct_change().fillna(0)
PctChange(prices) ==
    [t \in DOMAIN prices |->
        IF t = 0 THEN 0
        ELSE Div((prices[t] - prices[t - 1]) * Scale, prices[t - 1])]

RECURSIVE EwmaVar(_, _)
EwmaVar(returns, i) ==
    IF i = 0 THEN returns[0] * returns[0]
    ELSE (AlphaPct * EwmaVar(returns, i - 1)
          + (100 - AlphaPct) * returns[i] * returns[i]) \div 100

\* _calculate_ewma_volatility: an empty series gives an empty result
CalculateEwmaVolatility(returns) ==
    [i \in DOMAIN returns |-> Sqrt(EwmaVar(returns, i))]

\* the per-event window mean of run(), before the floor
WindowVolatility(ewma_vol, idx, lookback) ==
    IF idx >= lookback THEN MeanSlice(ewma_vol, Max(0, idx - lookback), idx)
    ELSE IF idx > 0 THEN MeanSlice(ewma_vol, 0, idx + 1)
    ELSE DefaultVolatility

\* FloorVolatility with the floor of line 425 left out (the fault
\* C4_VolatilityFloor detects)
NoFloor(v) == v

\* np.maximum(event_volatilities, 0.001)
FloorVolatility(v) == Max(v, MinVolatility)

EventVolatilities(prices, indices, lookback) ==
    LET ewma_vol == CalculateEwmaVolatility(PctChange(prices))
    IN  [i \in DOMAIN indices |->
            FloorVolatility(WindowVolatility(ewma_vol, indices[i], lookback))]

----------------------------------------------------------------------------
(* 4.2 Barrier calculator and 4.3 bar-level scanner:                       *)
(* _apply_triple_barrier_v22, one event at a time                          *)

\* Barriers with the short levels on the long side of the entry price (the
\* fault C15_LongShortSymmetry detects)
BarriersLongOnly(entry_price, side, tp_distance, sl_distance) ==
    [tp       |-> entry_price + tp_distance,
     sl       |-> entry_price - sl_distance,
     tp_short |-> entry_price - tp_distance,
     sl_short |-> entry_price + sl_distance]

\* the four levels of lines 143-153; a long or short event uses tp / sl,
\* a two-sided event the long and the short pair
Barriers(entry_price, side, tp_distance, sl_distance) ==
    [tp       |-> IF side = -1 THEN entry_price - tp_distance
                  ELSE entry_price + tp_distance,
     sl       |-> IF side = -1 THEN entry_price + sl_distance
                  ELSE entry_price - sl_distance,
     tp_short |-> entry_price - tp_distance,
     sl_short |-> entry_price + sl_distance]

\* BarHit with the stop-loss branches (the elif of lines 179, 190, 203, 216)
\* left out (the fault C1_FirstCrossing detects)
BarHitNoStopLoss(side, b, current_price) ==
    IF side \in {1, 0} /\ current_price >= b.tp
    THEN [hit_type |-> 1, exit_price |-> b.tp, side |-> 1]
    ELSE IF side = -1 /\ current_price <= b.tp
    THEN [hit_type |-> 1, exit_price |-> b.tp, side |-> -1]
    ELSE IF side = 0 /\ current_price <= b.tp_short
    THEN [hit_type |-> 1, exit_price |-> b.tp_short, side |-> -1]
    ELSE [hit_type |-> 0, exit_price |-> 0, side |-> side]

\* BarHit with the short pair of a two-sided event tested before the long
\* pair (the fault C29_ShortOnlyByAsymmetry detects)
BarHitShortFirst(side, b, current_price) ==
    IF side = 0 /\ current_price <= b.tp_short
    THEN [hit_type |-> 1, exit_price |-> b.tp_short, side |-> -1]
    ELSE IF side = 0 /\ current_price >= b.sl_short
    THEN [hit_type |-> -1, exit_price |-> b.sl_short, side |-> -1]
    ELSE BarHitNoStopLoss(side, b, current_price)

\* BarHit with the exit at the price of the bar that crossed the level (the
\* fault C30_ExitAtBarrierLevel detects)
BarHitAtBarPrice(side, b, current_price) ==
    IF side \in {1, 0} /\ current_price >= b.tp
    THEN [hit_type |-> 1, exit_price |-> current_price, side |-> 1]
    ELSE IF side \in {1, 0} /\ current_price <= b.sl
    THEN [hit_type |-> -1, exit_price |-> current_price, side |-> 1]
    ELSE IF current_price <= b.tp_short
    THEN [hit_type |-> 1, exit_price |-> current_price, side |-> -1]
    ELSE IF current_price >= b.sl_short
    THEN [hit_type |-> -1, exit_price |-> current_price, side |-> -1]
    ELSE [hit_type |-> 0, exit_price |-> 0, side |-> side]

\* the branch of lines 173-221 a bar price takes: the hit type, the exit
\* price and the side recorded, or hit_type 0 when no condition holds
BarHit(side, b, current_price) ==
    IF side = 1 THEN
        IF current_price >= b.tp THEN [hit_type |-> 1, exit_price |-> b.tp, side |-> 1]
        ELSE IF current_price <= b.sl THEN [hit_type |-> -1, exit_price |-> b.sl, side |-> 1]
        ELSE [hit_type |-> 0, exit_price |-> 0, side |-> side]
    ELSE IF side = -1 THEN
        IF current_price <= b.tp THEN [hit_type |-> 1, exit_price |-> b.tp, side |-> -1]
        ELSE IF current_price >= b.sl THEN [hit_type |-> -1, exit_price |-> b.sl, side |-> -1]
        ELSE [hit_type |-> 0, exit_price |-> 0, side |-> side]
    ELSE
        IF current_price >= b.tp THEN [hit_type |-> 1, exit_price |-> b.tp, side |-> 1]
        ELSE IF current_price <= b.sl THEN [hit_type |-> -1, exit_price |-> b.sl, side |-> 1]
        ELSE IF current_price <= b.tp_short
            THEN [hit_type |-> 1, exit_price |-> b.tp_short, side |-> -1]
        ELSE IF current_price >= b.sl_short
            THEN [hit_type |-> -1, exit_price |-> b.sl_short, side |-> -1]
        ELSE [hit_type |-> 0, exit_price |-> 0, side |-> side]

\* the loop of lines 164-221 from bar t on: the locals it leaves behind.
\* exit_bar is the bar the exit price and time were taken from (-1: none,
\* the locals still hold the entry bar's values); stop_bar is the bar the
\* loop broke at on the wall-clock check (-1: it did not).
RECURSIVE SearchForHits(_, _, _, _, _, _, _, _)
SearchForHits(prices, times, t, timeout_bar_idx, timeout_time_ns, side, b, entry) ==
    IF t > timeout_bar_idx
    THEN [hit_type |-> 0, exit_price |-> entry.price, exit_time_ns |-> entry.time,
          side |-> side, exit_bar |-> -1, stop_bar |-> -1]
    ELSE IF times[t] > timeout_time_ns
    THEN [hit_type |-> 0, exit_price |-> entry.price, exit_time_ns |-> entry.time,
          side |-> side, exit_bar |-> -1, stop_bar |-> t]
    ELSE LET h == BarHit(side, b, prices[t])
         IN  IF h.hit_type # 0
             THEN [hit_type |-> h.hit_type, exit_price |-> h.exit_price,
                   exit_time_ns |-> times[t], side |-> h.side,
                   exit_bar |-> t, stop_bar |-> -1]
             ELSE SearchForHits(prices, times, t + 1, timeout_bar_idx,
                                timeout_time_ns, side, b, entry)

\* lines 224-228: without a hit the exit is the bar at timeout_bar_idx
TimeoutExit(prices, times, timeout_bar_idx, found) ==
    IF found.hit_type = 0 /\ timeout_bar_idx < Len0(prices)
    THEN [found EXCEPT !.exit_price = prices[timeout_bar_idx],
                       !.exit_time_ns = times[timeout_bar_idx],
                       !.exit_bar = timeout_bar_idx]
    ELSE found

\* Return with an unresolved two-sided event valued as a long trade (the
\* fault C28_BothTimeoutReturnsZero detects)
ReturnBothAsLong(side, entry_price, exit_price) ==
    IF side = -1 THEN Div((entry_price - exit_price) * Scale, entry_price)
    ELSE Div((exit_price - entry_price) * Scale, entry_price)

\* lines 231-236
Return(side, entry_price, exit_price) ==
    IF side = 1 THEN Div((exit_price - entry_price) * Scale, entry_price)
    ELSE IF side = -1 THEN Div((entry_price - exit_price) * Scale, entry_price)
    ELSE 0

\* LabelOf with the two-way label of the refinement (line 327) used at bar
\* level (the fault C2_LabelConsistency detects)
LabelBinary(hit_type) == IF hit_type = 1 THEN 1 ELSE -1

\* lines 239-244
LabelOf(hit_type) ==
    IF hit_type = 1 THEN 1 ELSE IF hit_type = -1 THEN -1 ELSE 0

\* a row np.zeros left untouched (line 127; line 132 skips the event)
ZeroRow == [return |-> 0, label |-> 0, exit_time_ns |-> 0, hit_type |-> 0,
            volatility_used |-> 0]

\* TimeoutBarIdx with the cap counted from the bar after the entry bar (the
\* fault C8_TimeoutAtOffset1 detects)
TimeoutBarIdxFromNext(event_idx, timeout_bars, n_bars) ==
    Min(event_idx + 1 + timeout_bars, n_bars - 1)

\* line 156: the bar-count cap, clipped to the last bar
TimeoutBarIdx(event_idx, timeout_bars, n_bars) ==
    Min(event_idx + timeout_bars, n_bars - 1)

\* the locals of one iteration of the event loop (lines 130-228)
ScanEvent(prices, times, event_idx, tp_level, sl_level, timeout_bars, timeout_seconds, side, vol) ==
    LET n_bars == Len0(prices)
        entry == [price |-> At(prices, event_idx), time |-> At(times, event_idx)]
        b == Barriers(entry.price, side, tp_level * vol, sl_level * vol)
        timeout_bar_idx == TimeoutBarIdx(event_idx, timeout_bars, n_bars)
        timeout_time_ns == entry.time + timeout_seconds
        found == SearchForHits(prices, times, event_idx + 1, timeout_bar_idx,
                               timeout_time_ns, side, b, entry)
        out == TimeoutExit(prices, times, timeout_bar_idx, found)
    IN  [skipped |-> FALSE, event_idx |-> event_idx,
         entry_price |-> entry.price, entry_time_ns |-> entry.time,
         tp_price |-> b.tp, sl_price |-> b.sl,
         tp_price_short |-> b.tp_short, sl_price_short |-> b.sl_short,
         timeout_bar_idx |-> timeout_bar_idx, timeout_time_ns |-> timeout_time_ns,
         hit_type |-> out.hit_type, exit_price |-> out.exit_price,
         exit_time_ns |-> out.exit_time_ns, side |-> out.side,
         exit_bar |-> out.exit_bar, stop_bar |-> out.stop_bar, vol |-> vol]

\* results[i] = [ret, label, exit_time_ns, hit_type, vol] (line 246)
ResultRow(s) ==
    [return |-> Return(s.side, s.entry_price, s.exit_price),
     label |-> LabelOf(s.hit_type),
     exit_time_ns |-> s.exit_time_ns,
     hit_type |-> s.hit_type,
     volatility_used |-> s.vol]

\* _apply_triple_barrier_v22 over the batch: the locals of every event
\* (line 131 skips an event at or after the last bar) ...
ScanAll(prices, times, indices, tp_level, sl_level, timeout_bars, timeout_seconds, side, vols) ==
    [i \in DOMAIN indices |->
        IF indices[i] >= Len0(prices) - 1
        THEN [skipped |-> TRUE, event_idx |-> indices[i]]
        ELSE ScanEvent(prices, times, indices[i], tp_level, sl_level,
                       timeout_bars, timeout_seconds, side, vols[i])]

\* ... and the array it returns
ApplyTripleBarrierV22(scanned) ==
    [i \in DOMAIN scanned |->
        IF scanned[i].skipped THEN ZeroRow ELSE ResultRow(scanned[i])]

----------------------------------------------------------------------------
(* 4.4 Tick-level first-hit refinement *)

\* a tick of a slice file: (ts_ns, bid, ask); the mid_price column is the
\* one the tick-slice export writes
MidPrice(tick) == (tick.bid + tick.ask) \div 2

\* a slice file of the tick-slice directory
NoFile == [exists |-> FALSE, readable |-> FALSE, columns |-> FALSE, ticks |-> <<>>]

\* _load_tick_slices: the files that exist and can be read, by event id
LoadTickSlices(files, event_ids) ==
    LET ids == {event_ids[i] : i \in DOMAIN event_ids}
        loaded == {id \in ids : id \in DOMAIN files /\ files[id].exists
                                /\ files[id].readable}
    IN  [id \in loaded |-> files[id]]

\* the branch of lines 88-97 a tick price takes: 1 (TP), -1 (SL), 0 (none)
TickHit(side, price, tp_price, sl_price) ==
    IF side = 1 THEN
        IF price >= tp_price THEN 1
        ELSE IF price <= sl_price THEN -1
        ELSE 0
    ELSE
        IF price <= tp_price THEN 1
        ELSE IF price >= sl_price THEN -1
        ELSE 0

\* _first_hit_detection from tick k on (1-based here): the first tick, in
\* stored order, whose price crosses a level; tick is its position (0: none)
RECURSIVE FirstHitFrom(_, _, _, _, _, _)
FirstHitFrom(tick_prices, tick_times_ns, k, tp_price, sl_price, side) ==
    IF k > Len(tick_prices)
    THEN [hit_type |-> 0, exit_price |-> tick_prices[Len(tick_prices)],
          exit_time_ns |-> tick_times_ns[Len(tick_times_ns)], tick |-> 0]
    ELSE LET h == TickHit(side, tick_prices[k], tp_price, sl_price)
         IN  IF h # 0
             THEN [hit_type |-> h,
                   exit_price |-> IF h = 1 THEN tp_price ELSE sl_price,
                   exit_time_ns |-> tick_times_ns[k], tick |-> k]
             ELSE FirstHitFrom(tick_prices, tick_times_ns, k + 1, tp_price,
                               sl_price, side)

FirstHitDetection(tick_prices, tick_times_ns, entry_price, tp_price, sl_price, side) ==
    IF Len(tick_prices) = 0
    THEN [hit_type |-> 0, exit_price |-> entry_price, exit_time_ns |-> 0, tick |-> 0]
    ELSE FirstHitFrom(tick_prices, tick_times_ns, 1, tp_price, sl_price, side)

\* what one iteration of the loop of _enhance_with_tick_slices does with
\* event i: "skip" (a continue), "raise" (the slice has rows but not the
\* mid_price / ts_ns columns: a KeyError), "nohit" or "update"
EnhanceEvent(tick_slices, event_idx, entry_price, tp_level, sl_level, side, vol) ==
    IF event_idx \notin DOMAIN tick_slices THEN [kind |-> "skip"]
    ELSE LET tick_slice == tick_slices[event_idx]
         IN  IF Len(tick_slice.ticks) = 0 THEN [kind |-> "skip"]
             ELSE IF side \notin {1, -1} THEN [kind |-> "skip"]
             ELSE IF ~tick_slice.columns THEN [kind |-> "raise"]
             ELSE
                LET b == Barriers(entry_price, side, tp_level * vol, sl_level * vol)
                    tick_prices == [k \in DOMAIN tick_slice.ticks |->
                                        MidPrice(tick_slice.ticks[k])]
                    tick_times == [k \in DOMAIN tick_slice.ticks |->
                                        tick_slice.ticks[k].ts_ns]
                    hit == FirstHitDetection(tick_prices, tick_times, entry_price,
                                             b.tp, b.sl, side)
                IN  IF hit.hit_type = 0 THEN [kind |-> "nohit"]
                    ELSE [kind |-> "update", tick |-> hit.tick,
                          row |-> [return |-> Return(side, entry_price, hit.exit_price),
                                   label |-> IF hit.hit_type = 1 THEN 1 ELSE -1,
                                   exit_time_ns |-> hit.exit_time_ns,
                                   hit_type |-> hit.hit_type,
                                   volatility_used |-> vol]]

\* the slice the loop reads for event i: the one filed under the event's own
\* index, the bar it entered at (lines 292-295)
ConsultedSlice(indices, i) == indices[i]

\* the outcome of the loop for every event, in order
EnhanceAll(tick_slices, indices, prices, tp_level, sl_level, side, vols) ==
    [i \in DOMAIN indices |->
        EnhanceEvent(tick_slices, indices[i], At(prices, indices[i]),
                     tp_level, sl_level, side, vols[i])]

\* _enhance_with_tick_slices: the copy of the results with the updated
\* rows; an exception of any iteration leaves the function without a result
EnhanceRaises(steps) == \E i \in DOMAIN steps : steps[i].kind = "raise"

\* EnhanceWithTickSlices writing the rewritten row of the first event over
\* every row (the fault C22_NoHitKeepsRow detects)
EnhanceSpillsFirstRow(results, steps) ==
    [i \in DOMAIN results |->
        IF steps[1].kind = "update" THEN steps[1].row ELSE results[i]]

EnhanceWithTickSlices(results, steps) ==
    [i \in DOMAIN results |->
        IF steps[i].kind = "update" THEN steps[i].row ELSE results[i]]

----------------------------------------------------------------------------
(* The v2.1 kernel (core/labeling/labeling.py): apply_labeling_v2_1_numba, *)
(* which reads the tick slice of every bar it scans.  A tick is a row      *)
(* (bid, ask); pt_sl holds the two barrier distances.                      *)

\* lines 34-41: the entry price and the two levels
EntryPriceV21(prices_high, prices_low, t) == (prices_high[t] + prices_low[t]) \div 2

BarriersV21(entry_price, pt_sl, side) ==
    IF side = 1
    THEN [tp |-> entry_price + pt_sl[1], sl |-> entry_price - pt_sl[2]]
    ELSE [tp |-> entry_price - pt_sl[1], sl |-> entry_price + pt_sl[2]]

\* TimeoutTimeV21 with the cap one bar short (the fault
\* C27_KernelV21Timeout detects)
TimeoutTimeOneShort(entry_time, timeout_bars, n_bars) ==
    Min(entry_time + timeout_bars - 1, n_bars - 1)

\* line 43
TimeoutTimeV21(entry_time, timeout_bars, n_bars) ==
    Min(entry_time + timeout_bars, n_bars - 1)

\* the branch of lines 52-73 a tick takes: 1 (TP), -1 (SL), 0 (none)
TickHitV21(side, tick_bid, tick_ask, tp_price, sl_price) ==
    IF side = 1 THEN
        IF tick_ask >= tp_price THEN 1
        ELSE IF tick_bid <= sl_price THEN -1
        ELSE 0
    ELSE
        IF tick_bid <= tp_price THEN 1
        ELSE IF tick_ask >= sl_price THEN -1
        ELSE 0

\* the inner loop of lines 49-73 over one slice from tick k on: the label
\* and the position of the tick that set it (0: none)
RECURSIVE FirstTickV21(_, _, _, _)
FirstTickV21(slice_data, k, side, b) ==
    IF k > Len(slice_data) THEN [label |-> 0, tick |-> 0]
    ELSE LET h == TickHitV21(side, slice_data[k].bid, slice_data[k].ask, b.tp, b.sl)
         IN  IF h # 0 THEN [label |-> h, tick |-> k]
             ELSE FirstTickV21(slice_data, k + 1, side, b)

\* the loop of lines 45-74 over the bars from t on: the label, the bar and
\* the tick of the first hit (label 0: none)
RECURSIVE SearchBarsV21(_, _, _, _, _)
SearchBarsV21(tick_slices_by_bar, t, timeout_time, side, b) ==
    IF t > timeout_time THEN [label |-> 0, t_final |-> -1, tick |-> 0]
    ELSE LET h == FirstTickV21(tick_slices_by_bar[t], 1, side, b)
         IN  IF h.label # 0 THEN [label |-> h.label, t_final |-> t, tick |-> h.tick]
             ELSE SearchBarsV21(tick_slices_by_bar, t + 1, timeout_time, side, b)

\* one iteration of the event loop (lines 32-80): the row [ret, label,
\* t_final] with the locals entry_price, the levels and the winning tick
LabelEventV21(prices_high, prices_low, tick_slices_by_bar, entry_time, pt_sl, timeout_bars, side) ==
    LET entry_price == EntryPriceV21(prices_high, prices_low, entry_time)
        b == BarriersV21(entry_price, pt_sl, side)
        timeout_time == TimeoutTimeV21(entry_time, timeout_bars, Len0(prices_high))
        found == SearchBarsV21(tick_slices_by_bar, entry_time + 1, timeout_time, side, b)
        final_price == EntryPriceV21(prices_high, prices_low, timeout_time)
    IN  [entry_time |-> entry_time, entry_price |-> entry_price,
         tp_price |-> b.tp, sl_price |-> b.sl, tick |-> found.tick,
         ret |-> IF found.label = 1 THEN Div((b.tp - entry_price) * Scale, entry_price)
                 ELSE IF found.label = -1
                 THEN Div((b.sl - entry_price) * Scale, entry_price)
                 ELSE Div((final_price - entry_price) * Scale, entry_price),
         label |-> found.label,
         t_final |-> IF found.label # 0 THEN found.t_final ELSE timeout_time]

\* apply_labeling_v2_1_numba: one row per event
ApplyLabelingV21(prices_high, prices_low, tick_slices_by_bar, t_events, pt_sl, timeout_bars, side) ==
    [i \in DOMAIN t_events |->
        LabelEventV21(prices_high, prices_low, tick_slices_by_bar, t_events[i],
                      pt_sl, timeout_bars, side)]

----------------------------------------------------------------------------
(* 4.5 Orchestrator: run(config) *)

VARIABLES
    pc,                 \* the step run() is at
    bar_prices,         \* bars_df["mid"]
    bar_times_ns,       \* bars_df["t_close_ns"]
    config,             \* the configuration dictionary
    slice_files,        \* the files of config.tick_slices_dir, by event id
    event_indices,      \* the event indices kept by line 405
    event_volatilities, \* the volatility of each kept event
    scanned,            \* the bar-level locals of each kept event
    results,            \* the results array
    tick_slices,        \* the local tick_slices of run(): unbound until assigned
    enhance_steps,      \* what the refinement loop did with each event
    summary_stats,      \* the summary run() returns
    error,              \* the exception run() raised ("" when none)
    abort_file,         \* the abort file of the run directory exists
    kernel_v21          \* a call of the v2.1 kernel: its arguments and result

vars == <<pc, bar_prices, bar_times_ns, config, slice_files, event_indices,
          event_volatilities, scanned, results, tick_slices, enhance_steps,
          summary_stats, error, abort_file, kernel_v21>>

Unbound == [bound |-> FALSE, slices |-> <<>>]

\* strictly increasing close times of 1-minute bars; from bar gap_at on
\* (gap_at > 0) one bar interval is missing
BarTimes(gap_at) ==
    [t \in 0 .. MaxBars - 1 |->
        (t + 1) * BarSeconds + (IF gap_at > 0 /\ t >= gap_at THEN BarSeconds ELSE 0)]

GapAtSet == {0, 2}

\* event lists: indices 0 .. MaxBars, the last two at or after the last bar
RECURSIVE SeqsUpTo(_, _)
SeqsUpTo(S, n) ==
    IF n = 0 THEN {<<>>}
    ELSE LET shorter == SeqsUpTo(S, n - 1)
         IN  shorter \cup {Append(q, x) : q \in {r \in shorter : Len(r) = n - 1}, x \in S}

IsSortedByTime(q) == \A i \in 1 .. Len(q) - 1 : q[i].ts_ns <= q[i + 1].ts_ns

\* (config.timeout_bars, config.timeout_seconds): the wall-clock cap binds
\* in the pairs with 60 and 120 seconds
TimeoutSet == {<<1, 3600>>, <<2, 3600>>, <<3, 3600>>, <<3, 60>>, <<3, 120>>, <<2, 60>>}

\* quotes (bid, ask) of a tick and the times of a tick: before the first
\* bar closes, inside the second bar, after the last bar
QuoteSet == {<<101 * Scale, 102 * Scale>>, <<98 * Scale, 98 * Scale>>,
             <<102 * Scale, 102 * Scale>>}
TickTimeSet == {30, 90, 400}
TickSet == {[ts_ns |-> t, bid |-> q[1], ask |-> q[2]] : t \in TickTimeSet, q \in QuoteSet}

\* slice files as the tick-slice export writes them (sorted by ts_ns)
GoodSlices ==
    {[exists |-> TRUE, readable |-> TRUE, columns |-> TRUE, ticks |-> q] :
        q \in {r \in SeqsUpTo(TickSet, MaxTicks) : IsSortedByTime(r)}}
\* an unreadable file, and a readable one without the mid_price / ts_ns columns
BadSlices ==
    {[exists |-> TRUE, readable |-> FALSE, columns |-> FALSE, ticks |-> <<>>],
     [exists |-> TRUE, readable |-> TRUE, columns |-> FALSE,
      ticks |-> <<[ts_ns |-> 90, bid |-> 100 * Scale, ask |-> 100 * Scale]>>]}

\* a slice file stored out of timestamp order (the loader reads the rows as
\* they are): a low tick late in the last bar before a high tick of the
\* third bar
UnsortedSlice ==
    [exists |-> TRUE, readable |-> TRUE, columns |-> TRUE,
     ticks |-> <<[ts_ns |-> 4 * BarSeconds - 1, bid |-> 98 * Scale, ask |-> 98 * Scale],
                 [ts_ns |-> 2 * BarSeconds + 1, bid |-> 102 * Scale, ask |-> 102 * Scale]>>]

NoFiles == [id \in 0 .. MaxBars - 1 |-> NoFile]

\* runs with the default tick options (no directory configured): every
\* series, one event or none
InitScan ==
    /\ bar_prices \in [0 .. MaxBars - 1 -> PriceSet]
    /\ \E g \in GapAtSet : bar_times_ns = BarTimes(g)
    /\ \E ev \in SeqsUpTo(0 .. MaxBars, 1), to \in TimeoutSet, tp \in MultSet,
          sl \in MultSet, sd \in SideSet, lb \in VolLookbackSet :
          config = [events |-> ev, tp_vol_multiple |-> tp, sl_vol_multiple |-> sl,
                    timeout_bars |-> to[1], timeout_seconds |-> to[2], side |-> sd,
                    vol_lookback |-> lb, use_tick_slices |-> TRUE,
                    tick_slices_dir |-> "none"]
    /\ slice_files = NoFiles

\* the series of the tick-refinement runs: flat at 100, and 100 followed by
\* a bar at 102
TickRunPrices ==
    {[t \in 0 .. MaxBars - 1 |-> 100 * Scale],
     [t \in 0 .. MaxBars - 1 |-> IF t = 2 THEN 102 * Scale ELSE 100 * Scale]}

\* runs with tick refinement configured: events 0, 1, 0, ... with a slice
\* file of any kind for event 0 and an absent, bad, unsorted or one-tick file
\* for event 1; the directory may be missing, or the option off
InitTick ==
    /\ bar_prices \in TickRunPrices
    /\ bar_times_ns = BarTimes(0)
    /\ \E n \in 1 .. MaxEvents, to \in {<<1, 3600>>, <<3, 3600>>}, sd \in SideSet,
          lb \in VolLookbackSet, dir \in {"missing", "present"}, use \in BOOLEAN :
          config = [events |-> [i \in 1 .. n |-> (i - 1) % 2],
                    tp_vol_multiple |-> 200, sl_vol_multiple |-> 200,
                    timeout_bars |-> to[1], timeout_seconds |-> to[2], side |-> sd,
                    vol_lookback |-> lb, use_tick_slices |-> use,
                    tick_slices_dir |-> dir]
    /\ IF config.tick_slices_dir = "missing"
       THEN slice_files = NoFiles
       ELSE \E f0 \in GoodSlices \cup BadSlices \cup {NoFile},
               f1 \in BadSlices \cup {NoFile, UnsortedSlice}
                        \cup {s \in GoodSlices : Len(s.ticks) = 1
                                                /\ s.ticks[1].ts_ns = 90} :
               slice_files = [id \in 0 .. MaxBars - 1 |->
                                 IF id = 0 THEN f0 ELSE IF id = 1 THEN f1 ELSE NoFile]

\* close times run() does not check: two bars with the same close time, and
\* the bars in reverse order of time
DuplicateTimes ==
    [t \in 0 .. MaxBars - 1 |-> IF t = 2 THEN BarTimes(0)[1] ELSE BarTimes(0)[t]]
ReversedTimes == [t \in 0 .. MaxBars - 1 |-> BarTimes(0)[MaxBars - 1 - t]]
EdgeTimes == {BarTimes(0), DuplicateTimes, ReversedTimes}

\* the series of the edge runs: flat at 100, 99 up to a last bar at 100, a
\* first bar at 100 followed by 99, and a first bar at 99 followed by 100
EdgePrices ==
    {[t \in 0 .. MaxBars - 1 |-> 100 * Scale],
     [t \in 0 .. MaxBars - 1 |-> IF t = MaxBars - 1 THEN 100 * Scale ELSE 99 * Scale],
     [t \in 0 .. MaxBars - 1 |-> IF t = 0 THEN 100 * Scale ELSE 99 * Scale],
     [t \in 0 .. MaxBars - 1 |-> IF t = 0 THEN 99 * Scale ELSE 100 * Scale]}

\* event lists of the edge runs: the index -1 passes line 405
EdgeEvents == {<<-1>>, <<0>>, <<-1, 1>>}

\* the bar-count cap at one bar and at the length of the series
EdgeTimeoutSet == {<<1, 3600>>, <<MaxBars, 3600>>, <<MaxBars, 60>>}

\* runs on inputs run() accepts unchecked: a bars file without rows, close
\* times that do not increase, a negative event index
InitEdge ==
    /\ \E ev \in EdgeEvents, to \in EdgeTimeoutSet, tp \in MultSet, sl \in MultSet,
          sd \in SideSet, lb \in VolLookbackSet :
          config = [events |-> ev, tp_vol_multiple |-> tp, sl_vol_multiple |-> sl,
                    timeout_bars |-> to[1], timeout_seconds |-> to[2], side |-> sd,
                    vol_lookback |-> lb, use_tick_slices |-> TRUE,
                    tick_slices_dir |-> "none"]
    /\ \/ bar_prices = <<>> /\ bar_times_ns = <<>>
       \/ bar_prices \in EdgePrices /\ bar_times_ns \in EdgeTimes
    /\ slice_files = NoFiles

\* no call of the v2.1 kernel is under way (run() of v2.2 makes none)
NoCall == [pc |-> "none"]

Init ==
    /\ pc = "events"
    /\ kernel_v21 = NoCall
    /\ event_indices = <<>>
    /\ event_volatilities = <<>>
    /\ scanned = <<>>
    /\ results = <<>>
    /\ tick_slices = Unbound
    /\ enhance_steps = <<>>
    /\ summary_stats = <<>>
    /\ error = ""
    /\ abort_file = FALSE
    /\ (InitScan \/ InitTick \/ InitEdge)

\* lines 380-405: an empty event list is a ValueError; indices at or after
\* the last bar are dropped
LoadEvents ==
    /\ pc = "events"
    /\ IF Len(config.events) = 0
       THEN /\ pc' = "raised"
            /\ error' = "ValueError"
            /\ UNCHANGED event_indices
       ELSE /\ pc' = "volatility"
            /\ event_indices' = SelectSeq(config.events,
                                          LAMBDA idx : idx < Len0(bar_prices) - 1)
            /\ UNCHANGED error
    /\ UNCHANGED <<kernel_v21, abort_file, bar_prices, bar_times_ns, config,
                   slice_files, event_volatilities,
                   scanned, results, tick_slices, enhance_steps, summary_stats>>

\* lines 407-425
Volatility ==
    /\ pc = "volatility"
    /\ event_volatilities' = EventVolatilities(bar_prices, event_indices,
                                               config.vol_lookback)
    /\ pc' = "labeling"
    /\ UNCHANGED <<kernel_v21, abort_file, bar_prices, bar_times_ns, config,
                   slice_files, event_indices,
                   scanned, results, tick_slices, enhance_steps, summary_stats, error>>

\* lines 427-449
Labeling ==
    /\ pc = "labeling"
    /\ scanned' = ScanAll(bar_prices, bar_times_ns, event_indices,
                          config.tp_vol_multiple, config.sl_vol_multiple,
                          config.timeout_bars, config.timeout_seconds, config.side,
                          event_volatilities)
    /\ results' = ApplyTripleBarrierV22(scanned')
    /\ pc' = "tick_enhancement"
    /\ UNCHANGED <<kernel_v21, abort_file, bar_prices, bar_times_ns, config,
                   slice_files, event_indices,
                   event_volatilities, tick_slices, enhance_steps, summary_stats, error>>

\* lines 451-468: tick_slices is assigned only when the option is on, a
\* directory is configured and it exists; the refinement runs only when a
\* slice was loaded, and its KeyError leaves run()
TickEnhancement ==
    /\ pc = "tick_enhancement"
    /\ LET skip == [i \in DOMAIN event_indices |-> [kind |-> "skip"]]
       IN
       IF config.use_tick_slices /\ config.tick_slices_dir # "none"
          /\ config.tick_slices_dir = "present"
       THEN LET loaded == LoadTickSlices(slice_files, event_indices)
                steps == EnhanceAll(loaded, event_indices, bar_prices,
                                    config.tp_vol_multiple, config.sl_vol_multiple,
                                    config.side, event_volatilities)
            IN  /\ tick_slices' = [bound |-> TRUE, slices |-> loaded]
                /\ IF DOMAIN loaded = {}
                   THEN /\ enhance_steps' = skip
                        /\ pc' = "results"
                        /\ UNCHANGED <<results, error>>
                   ELSE IF EnhanceRaises(steps)
                   THEN /\ enhance_steps' = steps
                        /\ pc' = "raised"
                        /\ error' = "KeyError"
                        /\ UNCHANGED results
                   ELSE /\ enhance_steps' = steps
                        /\ results' = EnhanceWithTickSlices(results, steps)
                        /\ pc' = "results"
                        /\ UNCHANGED error
       ELSE /\ enhance_steps' = skip
            /\ pc' = "results"
            /\ UNCHANGED <<tick_slices, results, error>>
    /\ UNCHANGED <<kernel_v21, abort_file, bar_prices, bar_times_ns, config,
                   slice_files, event_indices,
                   event_volatilities, scanned, summary_stats>>

\* CountLabel counting only the rows with a hit (the fault
\* C13_SummaryCounts detects)
CountLabelHits(rows, l) ==
    Cardinality({i \in DOMAIN rows : rows[i].label = l /\ rows[i].hit_type # 0})

\* (results_df["label"] == l).sum()
CountLabel(rows, l) == Cardinality({i \in DOMAIN rows : rows[i].label = l})

\* the mean of an empty column is not a number: a value no rate takes
NaN == -1

\* (results_df["label"] == 1).mean(): the sum of the indicator column over
\* its length
WinRate(rows) ==
    IF Len(rows) = 0 THEN NaN
    ELSE Div(SumRange([i \in DOMAIN rows |-> IF rows[i].label = 1 THEN Scale ELSE 0],
                      1, Len(rows) + 1), Len(rows))

\* lines 470-529: line 507 reads tick_slices whenever the option is on and a
\* directory is configured, bound or not (an UnboundLocalError)
Summary ==
    /\ pc = "results"
    /\ IF config.use_tick_slices /\ config.tick_slices_dir # "none"
          /\ ~tick_slices.bound
       THEN /\ pc' = "raised"
            /\ error' = "UnboundLocalError"
            /\ UNCHANGED summary_stats
       ELSE /\ summary_stats' =
                [total_events |-> Len(results),
                 profitable_events |-> CountLabel(results, 1),
                 loss_events |-> CountLabel(results, -1),
                 timeout_events |-> CountLabel(results, 0),
                 win_rate |-> WinRate(results),
                 tick_enhanced_events |->
                    IF config.use_tick_slices /\ config.tick_slices_dir # "none"
                    THEN Cardinality(DOMAIN tick_slices.slices) ELSE 0]
            /\ pc' = "done"
            /\ UNCHANGED error
    /\ UNCHANGED <<kernel_v21, abort_file, bar_prices, bar_times_ns, config,
                   slice_files, event_indices,
                   event_volatilities, scanned, results, tick_slices, enhance_steps>>

Next == LoadEvents \/ Volatility \/ Labeling \/ TickEnhancement \/ Summary

Spec == Init /\ [][Next]_vars

\* ProgressMonitor.request_abort: somebody touches the abort file of the run
\* directory; no line of run() reads it (is_aborted is never called)
RequestAbort ==
    /\ ~abort_file
    /\ abort_file' = TRUE
    /\ UNCHANGED <<pc, bar_prices, bar_times_ns, config, slice_files, event_indices,
                   event_volatilities, scanned, results, tick_slices, enhance_steps,
                   summary_stats, error, kernel_v21>>

\* the batches of the tick-refinement runs, with an abort request possible
\* at any point of the run
InitAbort ==
    /\ pc = "events"
    /\ event_indices = <<>>
    /\ event_volatilities = <<>>
    /\ scanned = <<>>
    /\ results = <<>>
    /\ tick_slices = Unbound
    /\ enhance_steps = <<>>
    /\ summary_stats = <<>>
    /\ error = ""
    /\ abort_file = FALSE
    /\ kernel_v21 = NoCall
    /\ InitTick

NextAbort ==
    RequestAbort \/ LoadEvents \/ Volatility \/ Labeling \/ TickEnhancement \/ Summary

SpecAbort == InitAbort /\ [][NextAbort]_vars

\* bars (low, high) of the kernel calls: mid 100 throughout, and mid 100
\* with a last bar at mid 101
BarsV21 ==
    {[t \in 0 .. MaxBars - 1 |-> <<99 * Scale, 101 * Scale>>],
     [t \in 0 .. MaxBars - 1 |->
        IF t = MaxBars - 1 THEN <<100 * Scale, 102 * Scale>>
        ELSE <<99 * Scale, 101 * Scale>>]}

\* ticks (bid, ask) around the levels 98 and 102: inside both, a spread over
\* both, an ask on the upper level, a bid on the lower level
QuoteSetV21 ==
    {<<99 * Scale, 101 * Scale>>, <<98 * Scale, 102 * Scale>>,
     <<101 * Scale, 102 * Scale>>, <<98 * Scale, 99 * Scale>>}

TicksV21(n) == {[k \in 1 .. Len(q) |-> [bid |-> q[k][1], ask |-> q[k][2]]] : q \in SeqsUpTo(QuoteSetV21, n)}

\* the event lists of the kernel calls: one event, or the event 0 and one more
EventsV21 == {<<e>> : e \in 0 .. MaxBars - 1} \cup {<<0, e>> : e \in 0 .. MaxBars - 1}

\* calls of the v2.1 kernel: ticks in the slices of bars 1 and 2, distances
\* of 2 on either side, the bar-count cap at 1, 2 and the series length
InitV21 ==
    /\ pc = "none"
    /\ bar_prices = <<>> /\ bar_times_ns = <<>> /\ config = <<>>
    /\ slice_files = <<>>
    /\ event_indices = <<>>
    /\ event_volatilities = <<>>
    /\ scanned = <<>>
    /\ results = <<>>
    /\ tick_slices = Unbound
    /\ enhance_steps = <<>>
    /\ summary_stats = <<>>
    /\ error = ""
    /\ abort_file = FALSE
    /\ \E bars \in BarsV21, s1 \in TicksV21(MaxTicks), s2 \in TicksV21(1),
          ev \in EventsV21, tb \in {1, 2, MaxBars}, sd \in {1, -1} :
          kernel_v21 =
            [pc |-> "call",
             prices_high |-> [t \in 0 .. MaxBars - 1 |-> bars[t][2]],
             prices_low |-> [t \in 0 .. MaxBars - 1 |-> bars[t][1]],
             tick_slices |-> [t \in 0 .. MaxBars - 1 |->
                                IF t = 1 THEN s1 ELSE IF t = 2 THEN s2 ELSE <<>>],
             t_events |-> ev, pt_sl |-> <<2 * Scale, 2 * Scale>>,
             timeout_bars |-> tb, side |-> sd, rows |-> <<>>, out |-> <<>>]

\* the call returns: rows holds the locals of each event, out the array
\* [ret, label, t_final] the kernel returns
CallKernelV21 ==
    /\ kernel_v21.pc = "call"
    /\ LET rows == ApplyLabelingV21(kernel_v21.prices_high, kernel_v21.prices_low,
                                    kernel_v21.tick_slices, kernel_v21.t_events,
                                    kernel_v21.pt_sl, kernel_v21.timeout_bars,
                                    kernel_v21.side)
       IN  kernel_v21' =
             [kernel_v21 EXCEPT
                !.pc = "returned", !.rows = rows,
                !.out = [i \in DOMAIN rows |->
                            <<rows[i].ret, rows[i].label, rows[i].t_final>>]]
    /\ UNCHANGED <<pc, bar_prices, bar_times_ns, config, slice_files, event_indices,
                   event_volatilities, scanned, results, tick_slices, enhance_steps,
                   summary_stats, error, abort_file>>

NextV21 == CallKernelV21

SpecV21 == InitV21 /\ [][NextV21]_vars

----------------------------------------------------------------------------
(* Properties *)

Scanned(i) == i \in DOMAIN scanned /\ ~scanned[i].skipped

\* the refinement has run and kept or rewritten the rows
Refined == pc \in {"results", "done"}

\* the row the bar-level scanner gave event i
BarLevelRow(i) == ResultRow(scanned[i])

\* a bar price meets a barrier condition of the event whose locals are s
\* (for a two-sided event: any of the four)
CrossesBarrier(s, price) ==
    IF config.side = 1 THEN price >= s.tp_price \/ price <= s.sl_price
    ELSE IF config.side = -1 THEN price <= s.tp_price \/ price >= s.sl_price
    ELSE \/ price >= s.tp_price \/ price <= s.sl_price
         \/ price <= s.tp_price_short \/ price >= s.sl_price_short

\* C1: an event the scanner resolves as TP_HIT or SL_HIT at bar t has no bar
\* strictly between its entry bar and t that meets a barrier condition.
C1_FirstCrossing ==
    \A i \in DOMAIN scanned :
        (Scanned(i) /\ scanned[i].hit_type # 0) =>
            \A k \in scanned[i].event_idx + 1 .. scanned[i].exit_bar - 1 :
                ~CrossesBarrier(scanned[i], bar_prices[k])

\* a hit found two or more bars after the entry bar
C1_Witness ==
    \E i \in DOMAIN scanned :
        /\ Scanned(i) /\ scanned[i].hit_type # 0
        /\ scanned[i].exit_bar >= scanned[i].event_idx + 2

\* C2: in every result row, of the scanner and of the refinement, the label
\* is 1 exactly for hit type TP, -1 exactly for SL, 0 exactly for TIMEOUT.
C2_LabelConsistency ==
    \A i \in DOMAIN results :
        /\ (results[i].label = 1) <=> (results[i].hit_type = 1)
        /\ (results[i].label = -1) <=> (results[i].hit_type = -1)
        /\ (results[i].label = 0) <=> (results[i].hit_type = 0)

\* a run that ends with a row the refinement rewrote and a timed-out row
C2_Witness ==
    /\ pc = "done"
    /\ \E i \in DOMAIN results : enhance_steps[i].kind = "update"
    /\ \E i \in DOMAIN results : results[i].hit_type = 0 /\ Scanned(i)

\* C3: a row the refinement rewrote has an exit time not before the event's
\* entry time and not after the exit time of the bar-level row it replaces.
C3_RefinedExitWithinBar ==
    \A i \in DOMAIN results :
        (Refined /\ enhance_steps[i].kind = "update") =>
            /\ results[i].exit_time_ns >= scanned[i].entry_time_ns
            /\ results[i].exit_time_ns <= BarLevelRow(i).exit_time_ns

\* C4: every row of a completed run has volatility_used >= 0.001.
C4_VolatilityFloor ==
    pc = "done" => \A i \in DOMAIN results :
                        results[i].volatility_used >= MinVolatility

\* a completed run on a flat series, its event past the first bar
C4_Witness ==
    /\ pc = "done"
    /\ \A t \in DOMAIN bar_prices : bar_prices[t] = bar_prices[0]
    /\ \E i \in DOMAIN results :
        event_indices[i] > 0 /\ results[i].volatility_used = MinVolatility

\* the bars after the entry bar inside both caps of event s
BarsInsideCaps(s) ==
    {k \in s.event_idx + 1 .. Min(s.event_idx + config.timeout_bars,
                                  Len0(bar_prices) - 1) :
        bar_times_ns[k] <= s.entry_time_ns + config.timeout_seconds}

LastOf(S) == CHOOSE k \in S : \A j \in S : j <= k

\* C5: a timed-out event exits at the bar on the timeout boundary, the
\* tighter of the bar-count cap and the wall-clock cap: never the entry bar,
\* and never after entry time + timeout_seconds when a bar inside that
\* window exists.
C5_TimeoutAtBoundary ==
    \A i \in DOMAIN scanned :
        (Scanned(i) /\ scanned[i].hit_type = 0) =>
            /\ scanned[i].exit_bar # scanned[i].event_idx
            /\ BarsInsideCaps(scanned[i]) # {} =>
                /\ scanned[i].exit_time_ns
                     <= scanned[i].entry_time_ns + config.timeout_seconds
                /\ scanned[i].exit_bar = LastOf(BarsInsideCaps(scanned[i]))
                /\ scanned[i].exit_price
                     = bar_prices[LastOf(BarsInsideCaps(scanned[i]))]

\* event i is long with TP 102 and SL 98 around the entry price 100
LongScenario(i) ==
    /\ Scanned(i)
    /\ config.side = 1
    /\ scanned[i].entry_price = 100 * Scale
    /\ scanned[i].tp_price = 102 * Scale
    /\ scanned[i].sl_price = 98 * Scale

\* the loaded slice of event i holds a tick with ask >= TP before any tick
\* with bid <= SL, and a tick with bid <= SL (the bar straddles both levels)
AskCrossesFirst(i) ==
    /\ tick_slices.bound
    /\ event_indices[i] \in DOMAIN tick_slices.slices
    /\ LET ticks == tick_slices.slices[event_indices[i]].ticks
       IN  /\ tick_slices.slices[event_indices[i]].columns
           /\ \E k \in DOMAIN ticks :
                /\ ticks[k].ask >= scanned[i].tp_price
                /\ \A j \in 1 .. k : ticks[j].bid > scanned[i].sl_price
           /\ \E k \in DOMAIN ticks : ticks[k].bid <= scanned[i].sl_price

\* C7: a long event with TP 102 and SL 98 whose slice has a tick with
\* ask >= 102 before any tick with bid <= 98 is resolved TP_HIT, label +1,
\* by the refinement.
C7_AskTickResolvesTP ==
    \A i \in DOMAIN results :
        (Refined /\ LongScenario(i) /\ AskCrossesFirst(i)) =>
            results[i].hit_type = 1 /\ results[i].label = 1

\* the timeout scenario: long, entry 100, TP 102, SL 98, the next three
\* bars at 100, timeout_bars 2, the wall-clock cap beyond the series
TimeoutScenario(i) ==
    /\ LongScenario(i)
    /\ config.timeout_bars = 2
    /\ scanned[i].event_idx + 3 \in DOMAIN bar_prices
    /\ \A k \in 1 .. 3 : bar_prices[scanned[i].event_idx + k] = 100 * Scale
    /\ scanned[i].timeout_time_ns > bar_times_ns[scanned[i].event_idx + 3]

\* offset k of the subsequent bars is bar event_idx + 1 + k (103 of
\* [101, 103, 97] is offset 1)
OffsetBar(s, k) == s.event_idx + 1 + k

\* C8 as stated: the timeout scenario ends TIMEOUT with the exit at offset 2
\* of the subsequent bars and exit price 100.
C8_TimeoutAtOffset2 ==
    \A i \in DOMAIN scanned :
        TimeoutScenario(i) =>
            /\ scanned[i].hit_type = 0
            /\ scanned[i].exit_bar = OffsetBar(scanned[i], 2)
            /\ scanned[i].exit_price = 100 * Scale

\* C8 amended: the timeout scenario ends TIMEOUT with the exit at bar
\* event_idx + timeout_bars, offset 1 of the subsequent bars, exit price 100
\* and that bar's time.
C8_TimeoutAtOffset1 ==
    \A i \in DOMAIN scanned :
        TimeoutScenario(i) =>
            /\ scanned[i].hit_type = 0
            /\ scanned[i].exit_bar = OffsetBar(scanned[i], 1)
            /\ scanned[i].exit_bar = scanned[i].event_idx + config.timeout_bars
            /\ scanned[i].exit_price = 100 * Scale
            /\ scanned[i].exit_time_ns = bar_times_ns[OffsetBar(scanned[i], 1)]
            /\ BarLevelRow(i).label = 0 /\ BarLevelRow(i).return = 0

C8_Witness == \E i \in DOMAIN scanned : TimeoutScenario(i)

\* no tick slice is available for any event: the directory is missing, or
\* every event's file is missing or has no rows
NoSliceAvailable ==
    \/ config.tick_slices_dir = "missing"
    \/ /\ config.tick_slices_dir = "present"
       /\ \A i \in DOMAIN event_indices :
            \/ ~slice_files[event_indices[i]].exists
            \/ /\ slice_files[event_indices[i]].readable
               /\ Len(slice_files[event_indices[i]].ticks) = 0

\* C9: with tick refinement enabled and no slice available, run() does not
\* raise, and it ends with the bar-level rows.
C9_NoSliceIsSkipped ==
    (config.use_tick_slices /\ Len(config.events) > 0 /\ NoSliceAvailable) =>
        /\ pc # "raised"
        /\ Refined => \A i \in DOMAIN results : results[i] = BarLevelRow(i)

\* the file of event index idx is unreadable, or readable without the
\* mid_price / ts_ns columns
Malformed(idx) ==
    /\ slice_files[idx].exists
    /\ ~slice_files[idx].readable \/ ~slice_files[idx].columns

\* C10: a malformed slice of one event never aborts the batch: run() does
\* not raise, and that event keeps its bar-level row.
C10_MalformedSliceIsSkipped ==
    (/\ config.use_tick_slices /\ config.tick_slices_dir = "present"
     /\ \E i \in DOMAIN event_indices : Malformed(event_indices[i])) =>
        /\ pc # "raised"
        /\ Refined => \A i \in DOMAIN results :
                         Malformed(event_indices[i]) => results[i] = BarLevelRow(i)

\* the close times of the bars increase strictly
StrictlyIncreasing(times) ==
    \A t \in DOMAIN times : t + 1 \in DOMAIN times => times[t] < times[t + 1]

\* the price series is empty, or its bar times do not increase strictly
MalformedSeries == Len0(bar_prices) = 0 \/ ~StrictlyIncreasing(bar_times_ns)

\* C11: on a malformed price series (empty, or bar times not strictly
\* increasing) run() raises before any event is processed: it never gets
\* past loading the events, and no result row is produced.
C11_MalformedSeriesRejected ==
    MalformedSeries =>
        /\ pc \in {"events", "raised"}
        /\ scanned = <<>> /\ results = <<>> /\ summary_stats = <<>>

\* the bar the scanner read the entry price and time of event s from
EntryBar(s) == IF s.event_idx < 0 THEN s.event_idx + Len0(bar_prices) ELSE s.event_idx

\* C12: an event whose index is negative, or at or after the last bar, does
\* not abort the batch; no event has its entry read from, or is scanned on,
\* a bar outside its own forward window (entry at bar event_index, exit
\* after it); every row of a completed run has event_index in 0 .. n_bars-2.
C12_OutOfRangeEventHandledLocally ==
    (\E k \in DOMAIN config.events :
        config.events[k] < 0 \/ config.events[k] >= Len0(bar_prices) - 1) =>
        /\ pc # "raised"
        /\ \A i \in DOMAIN scanned :
                Scanned(i) => /\ EntryBar(scanned[i]) = scanned[i].event_idx
                              /\ scanned[i].exit_bar > EntryBar(scanned[i])
        /\ pc = "done" => \A i \in DOMAIN results :
                              event_indices[i] \in 0 .. Len0(bar_prices) - 2

ReResolved == {i \in DOMAIN enhance_steps : enhance_steps[i].kind = "update"}

\* C14: tick_enhanced_events of a completed run is the number of events
\* whose row the refinement rewrote.
C14_TickEnhancedCountsRewrites ==
    pc = "done" => summary_stats.tick_enhanced_events = Cardinality(ReResolved)

\* the locals of event i scanned as a long (sd = 1) or short (sd = -1) event
\* on the series, volatility and parameters of the run
ScannedAs(i, sd) ==
    ScanEvent(bar_prices, bar_times_ns, event_indices[i], config.tp_vol_multiple,
              config.sl_vol_multiple, config.timeout_bars, config.timeout_seconds,
              sd, event_volatilities[i])

EqualPositiveMultiples ==
    config.tp_vol_multiple = config.sl_vol_multiple /\ config.tp_vol_multiple > 0

\* C15: when the scanner has run with equal positive multiples, the long and
\* the short scan of an event end at the same bar and time with opposite hit
\* types (TP against SL, timeout against timeout), and the short return is
\* minus the long one.
C15_LongShortSymmetry ==
    \A i \in DOMAIN scanned :
        (pc = "tick_enhancement" /\ Scanned(i) /\ EqualPositiveMultiples) =>
            LET long == ScannedAs(i, 1)
                short == ScannedAs(i, -1)
            IN  /\ config.side = 1 => scanned[i] = long
                /\ config.side = -1 => scanned[i] = short
                /\ long.exit_bar = short.exit_bar
                /\ long.exit_time_ns = short.exit_time_ns
                /\ long.hit_type = -short.hit_type
                /\ ResultRow(short).return = -ResultRow(long).return
                /\ ResultRow(short).label = -ResultRow(long).label

\* a short event stopped out two bars after its entry, where the long event
\* takes its profit
C15_Witness ==
    \E i \in DOMAIN scanned :
        /\ pc = "tick_enhancement" /\ Scanned(i) /\ EqualPositiveMultiples /\ config.side = -1
        /\ scanned[i].hit_type = -1
        /\ scanned[i].exit_bar = scanned[i].event_idx + 2
        /\ ScannedAs(i, 1).hit_type = 1
        /\ ResultRow(ScannedAs(i, 1)).return > 0

\* C16: once the abort file exists, no further event is scanned and the
\* rows computed so far are kept as they are.
C16_AbortStopsBatch ==
    [][abort_file => (scanned' = scanned /\ results' = results)]_vars

\* a TP condition and an SL condition of event s are both true at price
TieOnBar(s, price) ==
    IF config.side = 1 THEN price >= s.tp_price /\ price <= s.sl_price
    ELSE IF config.side = -1 THEN price <= s.tp_price /\ price >= s.sl_price
    ELSE /\ (price >= s.tp_price \/ price <= s.tp_price_short)
         /\ (price <= s.sl_price \/ price >= s.sl_price_short)

\* C17: an event whose exit bar meets a TP condition and an SL condition at
\* once is resolved SL_HIT by the scanner.
C17_TieResolvesStopLoss ==
    \A i \in DOMAIN scanned :
        (/\ Scanned(i) /\ scanned[i].hit_type # 0
         /\ TieOnBar(scanned[i], bar_prices[scanned[i].exit_bar])) =>
            scanned[i].hit_type = -1 /\ BarLevelRow(i).label = -1

SliceTicks(i) == tick_slices.slices[ConsultedSlice(event_indices, i)].ticks

\* tick k of the slice read for event i crosses a barrier of the event
TickCrosses(i, k) ==
    TickHit(config.side, MidPrice(SliceTicks(i)[k]), scanned[i].tp_price,
            scanned[i].sl_price) # 0

\* C19: the tick that resolves an event in the refinement is not before the
\* event's entry time, and no crossing tick at or after the entry time has
\* a smaller timestamp.
C19_EarliestTickFromEntry ==
    \A i \in DOMAIN results :
        (Refined /\ enhance_steps[i].kind = "update") =>
            /\ SliceTicks(i)[enhance_steps[i].tick].ts_ns >= scanned[i].entry_time_ns
            /\ \A k \in DOMAIN SliceTicks(i) :
                    (/\ TickCrosses(i, k)
                     /\ SliceTicks(i)[k].ts_ns >= scanned[i].entry_time_ns) =>
                        SliceTicks(i)[enhance_steps[i].tick].ts_ns <= SliceTicks(i)[k].ts_ns

\* C20: for an event the scanner resolved as a hit, the slice the
\* refinement reads is the slice of the bar of that hit.
C20_SliceOfHitBar ==
    \A i \in DOMAIN results :
        (/\ Refined /\ enhance_steps[i].kind \in {"nohit", "update"}
         /\ scanned[i].hit_type # 0) =>
            ConsultedSlice(event_indices, i) = scanned[i].exit_bar

\* C21: an event the bar-level scanner timed out is still a timeout after
\* the refinement.
C21_TimeoutStaysTimeout ==
    \A i \in DOMAIN results :
        (Refined /\ scanned[i].hit_type = 0) =>
            results[i].hit_type = 0 /\ results[i].label = 0

\* a slice was loaded for event i
HasSlice(i) == tick_slices.bound /\ event_indices[i] \in DOMAIN tick_slices.slices

\* no tick of the slice of event i meets the TP or the SL condition
NoTickCrosses(i) ==
    HasSlice(i) /\ config.side \in {1, -1} =>
        \A k \in DOMAIN SliceTicks(i) : ~TickCrosses(i, k)

\* the row the refinement of event i on its own (its slice, its entry price
\* and its volatility) gives: the bar-level row unless a tick hits
OwnRefinedRow(i) ==
    LET step == EnhanceEvent(tick_slices.slices, event_indices[i],
                             scanned[i].entry_price, config.tp_vol_multiple,
                             config.sl_vol_multiple, config.side, scanned[i].vol)
    IN  IF step.kind = "update" THEN step.row ELSE BarLevelRow(i)

\* C22: when the refinement has run, an event whose slice has no tick meeting the
\* TP or SL condition has exactly its bar-level row, and the row of every
\* event is the one its own refinement gives, whatever the other events'
\* slices hold.
C22_NoHitKeepsRow ==
    \A i \in DOMAIN results :
        pc = "results" =>
            /\ NoTickCrosses(i) => results[i] = BarLevelRow(i)
            /\ results[i] = OwnRefinedRow(i)

\* a batch in which the slice of one event has ticks and none of them hits,
\* and the row of another event was rewritten
C22_Witness ==
    /\ pc = "results" /\ tick_slices.bound
    /\ \E i \in DOMAIN results :
        /\ HasSlice(i) /\ Len(SliceTicks(i)) > 0 /\ config.side \in {1, -1}
        /\ NoTickCrosses(i)
    /\ \E j \in DOMAIN results : enhance_steps[j].kind = "update"

\* C23: every tick the refinement reads is decided by its quotes: ask
\* against the level crossed by rising prices, bid against the level
\* crossed by falling prices (the conditions of the v2.1 kernel).
C23_QuotesDecideHit ==
    \A i \in DOMAIN results :
        (Refined /\ enhance_steps[i].kind \in {"nohit", "update"}) =>
            \A k \in DOMAIN SliceTicks(i) :
                (enhance_steps[i].kind = "update" => k <= enhance_steps[i].tick) =>
                    TickHit(config.side, MidPrice(SliceTicks(i)[k]),
                            scanned[i].tp_price, scanned[i].sl_price)
                      = TickHitV21(config.side, SliceTicks(i)[k].bid,
                                   SliceTicks(i)[k].ask, scanned[i].tp_price,
                                   scanned[i].sl_price)

\* the bars after the entry of row r, up to the clipped bar-count cap, whose
\* slice holds a tick that meets a condition of the kernel
CrossingBarsV21(r) ==
    {t \in r.entry_time + 1 ..
            Min(r.entry_time + kernel_v21.timeout_bars,
                Len0(kernel_v21.prices_high) - 1) :
        \E k \in DOMAIN kernel_v21.tick_slices[t] :
            TickHitV21(kernel_v21.side, kernel_v21.tick_slices[t][k].bid,
                       kernel_v21.tick_slices[t][k].ask, r.tp_price, r.sl_price) # 0}

\* the mid price of bar t of the call
MidV21(t) == (kernel_v21.prices_high[t] + kernel_v21.prices_low[t]) \div 2

\* C24: the tick that resolves an event in the v2.1 kernel does not meet the
\* TP condition and the SL condition at once.
C24_NoTieOnTick ==
    kernel_v21.pc = "returned" =>
        \A i \in DOMAIN kernel_v21.rows :
            LET r == kernel_v21.rows[i]
            IN  r.label # 0 =>
                    LET tick == kernel_v21.tick_slices[r.t_final][r.tick]
                    IN  IF kernel_v21.side = 1
                        THEN ~(tick.ask >= r.tp_price /\ tick.bid <= r.sl_price)
                        ELSE ~(tick.bid <= r.tp_price /\ tick.ask >= r.sl_price)

C25_BothSidesSinglePass ==
    \A i \in DOMAIN scanned :
        (Scanned(i) /\ config.side = 0 /\ scanned[i].hit_type # 0) =>
            /\ CrossesBarrier(scanned[i], bar_prices[scanned[i].exit_bar])
            /\ \A k \in scanned[i].event_idx + 1 .. scanned[i].exit_bar - 1 :
                    ~CrossesBarrier(scanned[i], bar_prices[k])
            /\ scanned[i].side \in {1, -1}
            /\ BarLevelRow(i).return
                 = Return(scanned[i].side, scanned[i].entry_price, scanned[i].exit_price)
            /\ "side" \in DOMAIN BarLevelRow(i)

\* the volatility the window max(0, idx - lookback) .. idx - 1 gives the
\* event at index idx, with the floor of the estimator
WindowBeforeEvent(idx, lookback) ==
    LET ewma_vol == CalculateEwmaVolatility(PctChange(bar_prices))
    IN  Max(MinVolatility,
            IF idx = 0 THEN DefaultVolatility
            ELSE MeanSlice(ewma_vol, Max(0, idx - lookback), idx))

\* C26: the volatility of an event at index idx >= 0 is the mean of the EWMA
\* values at max(0, idx - lookback) .. idx - 1, the default when idx = 0.
C26_VolatilityWindow ==
    pc = "labeling" =>
        \A i \in DOMAIN event_indices :
            event_indices[i] >= 0 =>
                event_volatilities[i]
                  = WindowBeforeEvent(event_indices[i], config.vol_lookback)

C29_ShortOnlyByAsymmetry ==
    \A i \in DOMAIN scanned :
        (/\ pc = "tick_enhancement" /\ Scanned(i)
         /\ config.side = 0 /\ scanned[i].hit_type # 0) =>
            /\ scanned[i].side = -1 =>
                /\ bar_prices[scanned[i].exit_bar] < scanned[i].tp_price
                /\ bar_prices[scanned[i].exit_bar] > scanned[i].sl_price
                /\ scanned[i].hit_type = 1 =>
                        config.tp_vol_multiple < config.sl_vol_multiple
                /\ scanned[i].hit_type = -1 =>
                        config.sl_vol_multiple < config.tp_vol_multiple
            /\ config.tp_vol_multiple = config.sl_vol_multiple => scanned[i].side = 1

\* a two-sided event with an index in range resolved as a short take-profit
C29_Witness ==
    \E i \in DOMAIN scanned :
        /\ pc = "tick_enhancement" /\ Scanned(i) /\ config.side = 0 /\ scanned[i].event_idx >= 0
        /\ scanned[i].side = -1 /\ scanned[i].hit_type = 1

\* the return of a take-profit and of a stop-loss of event i
TpReturn(i) ==
    Div(config.tp_vol_multiple * scanned[i].vol * Scale, scanned[i].entry_price)
SlReturn(i) ==
    -Div(config.sl_vol_multiple * scanned[i].vol * Scale, scanned[i].entry_price)

\* C30: a hit of the scanner exits at the level that was crossed, and every
\* row with a hit, of the scanner or rewritten by the refinement, has the
\* return +tp multiple * vol / entry (TP, label 1, never negative) or
\* -sl multiple * vol / entry (SL, label -1, never positive).
C30_ExitAtBarrierLevel ==
    \A i \in DOMAIN results :
        (pc \in {"tick_enhancement", "results"} /\ Scanned(i)) =>
            /\ scanned[i].hit_type = 1 =>
                  scanned[i].exit_price
                    = (IF scanned[i].side = 1 THEN scanned[i].tp_price
                       ELSE scanned[i].tp_price_short)
            /\ scanned[i].hit_type = -1 =>
                  scanned[i].exit_price
                    = (IF scanned[i].side = 1 THEN scanned[i].sl_price
                       ELSE scanned[i].sl_price_short)
            /\ results[i].label = 1 =>
                  results[i].return = TpReturn(i) /\ results[i].return >= 0
            /\ results[i].label = -1 =>
                  results[i].return = SlReturn(i) /\ results[i].return <= 0

\* a run with a scanner hit on a bar beyond the level and a row rewritten
\* as a stop-loss from a tick beyond the level
C30_Witness ==
    /\ pc = "results"
    /\ \E i \in DOMAIN results :
        /\ scanned[i].hit_type # 0
        /\ bar_prices[scanned[i].exit_bar] # scanned[i].exit_price
    /\ \E j \in DOMAIN results :
        /\ enhance_steps[j].kind = "update" /\ results[j].label = -1
        /\ results[j].return < 0
        /\ MidPrice(SliceTicks(j)[enhance_steps[j].tick]) # scanned[j].sl_price

====
